---- MODULE Spec2Model ----
(***************************************************************************)
(* Stile's interface to the corr2 correlation-function engine              *)
(* (stile/corr2_utils.py): the option registry `options`, the validator    *)
(* check_options, the column catalog `column_maps` and the result parser   *)
(* read_corr2_output_file.                                                 *)
(*                                                                         *)
(* Python values are records [t |-> <type name>, v |-> <payload>].  A str  *)
(* is a sequence of one-character strings, so that the conversions int(),  *)
(* float(), str() and list() are computed character by character.  A float *)
(* is the exact decimal m / 10^k, kept as <<m, k>> with k minimal.         *)
(***************************************************************************)
EXTENDS Integers, Sequences, FiniteSets, TLC

VARIABLES
    fn,            \* the function being called
    pc,            \* "call" before the body has run, "done" after
    input_dict,    \* check_options: the dict, as its (key, value) items in iteration order
    check_status,  \* check_options: the check_status flag
    file_type,     \* read_corr2_output_file: the file_type argument
    file_rows,     \* read_corr2_output_file: the rows of numbers in the file file_name
    raised,        \* the exception the call ended with, NoException if it returned
    ret_dict,      \* the dict check_options returned (items), <<>> if it raised
    ret_array,     \* what read_corr2_output_file returned, NoArray if it raised
    kwargs,        \* write_corr2_param_file: **kwargs, as its items in iteration order
    param_file,    \* write_corr2_param_file: what param_file_name names or is
    stile_args,    \* getCF: the stile_args dict (items)
    correlation_function_type,  \* getCF: the kind of correlation function asked for
    data_sets,     \* getCF: which of data, data2, random, random2 are not None
    save_config,   \* getCF: the save_config flag
    corr2_kwargs,  \* getCF: the merged dict (items)
    handles,       \* getCF: the list of file handles mkstemp returned
    open_handles,  \* the file handles that are open
    temp_files,    \* the files tempfile.mkstemp created and nothing removed
    config_file,   \* getCF: path of the corr2 configuration file, <<>> before mkstemp
    output_file,   \* getCF: path of the corr2 output file, <<>> before mkstemp
    calls,         \* getCF: the calls made so far, <<name, arguments>> each, in order
    returncode,    \* the exit status of corr2, -1 while it has not run
    return_value,  \* what getCF returned, None if it has not returned
    frames,        \* two calls of getCF at once: the arguments and locals of each call
    heap           \* two calls of getCF at once: the objects the calls can reach

\* The variables of write_corr2_param_file
wvars == <<kwargs, param_file>>

\* The variables of getCF; it has **kwargs too
cfvars == <<stile_args, correlation_function_type, data_sets, save_config, corr2_kwargs,
            handles, open_handles, temp_files, config_file, output_file, calls, returncode,
            return_value, frames, heap>>

vars == <<fn, pc, input_dict, check_status, file_type, file_rows, raised, ret_dict, ret_array,
          wvars, cfvars>>

-----------------------------------------------------------------------------
(* Python values *)

PyStr(s) == [t |-> "str", v |-> s]
PyInt(n) == [t |-> "int", v |-> n]
PyFloat(m, k) == [t |-> "float", v |-> <<m, k>>]
PyBool(b) == [t |-> "bool", v |-> b]
PyList(l) == [t |-> "list", v |-> l]

\* The outcome of a conversion that raised (ValueError or TypeError).
Fail == [t |-> "raised", v |-> 0]

Digit == ("0" :> 0) @@ ("1" :> 1) @@ ("2" :> 2) @@ ("3" :> 3) @@ ("4" :> 4) @@
         ("5" :> 5) @@ ("6" :> 6) @@ ("7" :> 7) @@ ("8" :> 8) @@ ("9" :> 9)

DigitChar == <<"0", "1", "2", "3", "4", "5", "6", "7", "8", "9">>

IsDigits(s) == Len(s) > 0 /\ \A i \in 1..Len(s) : s[i] \in DOMAIN Digit

RECURSIVE DigitsVal(_)
DigitsVal(s) == IF s = <<>> THEN 0
                ELSE 10 * DigitsVal(SubSeq(s, 1, Len(s) - 1)) + Digit[s[Len(s)]]

RECURSIVE Pow10(_)
Pow10(k) == IF k = 0 THEN 1 ELSE 10 * Pow10(k - 1)

RECURSIVE NatStr(_)
NatStr(n) == IF n < 10 THEN <<DigitChar[n + 1]>>
             ELSE NatStr(n \div 10) \o <<DigitChar[(n % 10) + 1]>>

IntStr(n) == IF n < 0 THEN <<"-">> \o NatStr(-n) ELSE NatStr(n)

HasSign(s) == Len(s) > 0 /\ s[1] \in {"+", "-"}
Unsigned(s) == IF HasSign(s) THEN Tail(s) ELSE s
SignOf(s) == IF HasSign(s) /\ s[1] = "-" THEN -1 ELSE 1

\* m / 10^k with the trailing zeros of the fraction dropped
RECURSIVE NormFloat(_, _)
NormFloat(m, k) == IF k > 0 /\ m % 10 = 0 THEN NormFloat(m \div 10, k - 1)
                   ELSE PyFloat(m, k)

\* int(s) of a str: an optional sign and decimal digits
IntOfStr(s) == IF IsDigits(Unsigned(s)) THEN PyInt(SignOf(s) * DigitsVal(Unsigned(s)))
               ELSE Fail

\* float(s) of a str: an optional sign, digits, and optionally a point and
\* digits, with a digit on at least one side of the point
FloatOfStr(s) ==
    LET u == Unsigned(s)
        dots == {i \in 1..Len(u) : u[i] = "."}
    IN  IF dots = {}
        THEN IF IsDigits(u) THEN PyFloat(SignOf(s) * DigitsVal(u), 0) ELSE Fail
        ELSE LET d == CHOOSE i \in dots : \A j \in dots : i <= j
                 ip == SubSeq(u, 1, d - 1)
                 fp == SubSeq(u, d + 1, Len(u))
             IN  IF /\ Cardinality(dots) = 1
                    /\ Len(ip) + Len(fp) > 0
                    /\ \A i \in 1..Len(ip) : ip[i] \in DOMAIN Digit
                    /\ \A i \in 1..Len(fp) : fp[i] \in DOMAIN Digit
                 THEN NormFloat(SignOf(s) * (DigitsVal(ip) * Pow10(Len(fp)) + DigitsVal(fp)),
                                Len(fp))
                 ELSE Fail

Abs(n) == IF n < 0 THEN -n ELSE n

\* str(x) of a float <<m, k>>: integer part, point, the k fraction digits
FloatStr(m, k) ==
    LET a == Abs(m)
        ip == a \div Pow10(k)
        fr == a % Pow10(k)
        fd == NatStr(fr)
        pad == [i \in 1..(k - Len(fd)) |-> "0"]
    IN  (IF m < 0 THEN <<"-">> ELSE <<>>) \o NatStr(ip) \o <<".">> \o
        (IF k = 0 THEN <<"0">> ELSE pad \o fd)

RECURSIVE PyStrOf(_)
RECURSIVE JoinRepr(_)
\* repr(x): a str between quotes, anything else as str(x)
PyRepr(x) == IF x.t = "str" THEN <<"'">> \o x.v \o <<"'">> ELSE PyStrOf(x)
JoinRepr(l) == IF l = <<>> THEN <<>>
               ELSE IF Len(l) = 1 THEN PyRepr(l[1])
               ELSE PyRepr(l[1]) \o <<",", " ">> \o JoinRepr(Tail(l))
PyStrOf(x) ==
    CASE x.t = "str" -> x.v
      [] x.t = "int" -> IntStr(x.v)
      [] x.t = "float" -> FloatStr(x.v[1], x.v[2])
      [] x.t = "bool" -> IF x.v THEN <<"T", "r", "u", "e">> ELSE <<"F", "a", "l", "s", "e">>
      [] x.t = "list" -> <<"[">> \o JoinRepr(x.v) \o <<"]">>

\* bool(x)
Truth(x) ==
    CASE x.t = "str" -> x.v # <<>>
      [] x.t = "int" -> x.v # 0
      [] x.t = "float" -> x.v[1] # 0
      [] x.t = "bool" -> x.v
      [] x.t = "list" -> x.v # <<>>

\* options_type(value) at line 340: the value converted, or Fail if the
\* conversion raises
Convert(ty, x) ==
    CASE ty = "str" -> PyStr(PyStrOf(x))
      [] ty = "bool" -> PyBool(Truth(x))
      [] ty = "int" ->
            (CASE x.t = "str" -> IntOfStr(x.v)
               [] x.t = "int" -> x
               [] x.t = "bool" -> PyInt(IF x.v THEN 1 ELSE 0)
               [] x.t = "float" -> PyInt((IF x.v[1] < 0 THEN -1 ELSE 1) *
                                         (Abs(x.v[1]) \div Pow10(x.v[2])))
               [] x.t = "list" -> Fail)
      [] ty = "float" ->
            (CASE x.t = "str" -> FloatOfStr(x.v)
               [] x.t = "int" -> PyFloat(x.v, 0)
               [] x.t = "bool" -> PyFloat(IF x.v THEN 1 ELSE 0, 0)
               [] x.t = "float" -> x
               [] x.t = "list" -> Fail)
      [] ty = "list" ->
            (CASE x.t = "str" -> PyList([i \in 1..Len(x.v) |-> PyStr(<<x.v[i]>>)])
               [] x.t = "list" -> x
               [] OTHER -> Fail)

-----------------------------------------------------------------------------
(* The option registry *)

\* 'val': None.  check_options only tests ok['val'] for truth (line 348), and
\* None is as false as the empty tuple that stands for it here.
None == <<>>

\* The dict literal of lines 17-249 as Python evaluates it.  'n2_file_name' is
\* written twice with the same value.  The entry of 'project' is closed before
\* its 'status' (line 140), which makes 'status' a key of options whose value
\* is the string 'allowed' (line 141).
options ==
    ("file_name" :> [type |-> <<"str", "list">>, val |-> None, status |-> "captured"]) @@
    ("do_auto_corr" :> [type |-> <<"bool">>, val |-> None, status |-> "disallowed_computation"]) @@
    ("do_cross_corr" :> [type |-> <<"bool">>, val |-> None, status |-> "disallowed_computation"]) @@
    ("file_name2" :> [type |-> <<"str", "list">>, val |-> None, status |-> "captured"]) @@
    ("rand_file_name" :> [type |-> <<"str", "list">>, val |-> None, status |-> "captured"]) @@
    ("rand_file_name2" :> [type |-> <<"str", "list">>, val |-> None, status |-> "captured"]) @@
    ("file_list" :> [type |-> <<"str", "list">>, val |-> None, status |-> "disallowed_file"]) @@
    ("file_list2" :> [type |-> <<"str", "list">>, val |-> None, status |-> "disallowed_file"]) @@
    ("rand_file_list" :> [type |-> <<"str", "list">>, val |-> None, status |-> "disallowed_file"]) @@
    ("rand_file_list2" :> [type |-> <<"str", "list">>, val |-> None, status |-> "disallowed_file"]) @@
    ("file_type" :> [type |-> <<"str">>, val |-> <<<<"A", "S", "C", "I", "I">>, <<"F", "I", "T", "S">>>>, status |-> "captured"]) @@
    ("delimiter" :> [type |-> <<"str">>, val |-> None, status |-> "captured"]) @@
    ("comment_marker" :> [type |-> <<"str">>, val |-> None, status |-> "captured"]) @@
    ("first_row" :> [type |-> <<"int">>, val |-> None, status |-> "captured"]) @@
    ("last_row" :> [type |-> <<"int">>, val |-> None, status |-> "captured"]) @@
    ("x_col" :> [type |-> <<"int", "str">>, val |-> None, status |-> "captured"]) @@
    ("y_col" :> [type |-> <<"int", "str">>, val |-> None, status |-> "captured"]) @@
    ("ra_col" :> [type |-> <<"int", "str">>, val |-> None, status |-> "captured"]) @@
    ("dec_col" :> [type |-> <<"int", "str">>, val |-> None, status |-> "captured"]) @@
    ("x_units" :> [type |-> <<"str">>, val |-> None, status |-> "allowed"]) @@
    ("y_units" :> [type |-> <<"str">>, val |-> None, status |-> "allowed"]) @@
    ("ra_units" :> [type |-> <<"str">>, val |-> None, status |-> "allowed"]) @@
    ("dec_units" :> [type |-> <<"str">>, val |-> None, status |-> "allowed"]) @@
    ("g1_col" :> [type |-> <<"int", "str">>, val |-> None, status |-> "captured"]) @@
    ("g2_col" :> [type |-> <<"int", "str">>, val |-> None, status |-> "captured"]) @@
    ("k_col" :> [type |-> <<"int", "str">>, val |-> None, status |-> "captured"]) @@
    ("w_col" :> [type |-> <<"int", "str">>, val |-> None, status |-> "captured"]) @@
    ("flip_g1" :> [type |-> <<"bool">>, val |-> None, status |-> "captured"]) @@
    ("flip_g2" :> [type |-> <<"bool">>, val |-> None, status |-> "captured"]) @@
    ("pairwise" :> [type |-> <<"bool">>, val |-> None, status |-> "disallowed_computation"]) @@
    ("project" :> [type |-> <<"bool">>, val |-> None]) @@
    ("status" :> [str |-> "allowed"]) @@
    ("project_ra" :> [type |-> <<"float">>, val |-> None, status |-> "allowed"]) @@
    ("project_dec" :> [type |-> <<"float">>, val |-> None, status |-> "allowed"]) @@
    ("min_sep" :> [type |-> <<"float">>, val |-> None, status |-> "captured"]) @@
    ("max_sep" :> [type |-> <<"float">>, val |-> None, status |-> "captured"]) @@
    ("nbins" :> [type |-> <<"float">>, val |-> None, status |-> "captured"]) @@
    ("bin_size" :> [type |-> <<"float">>, val |-> None, status |-> "captured"]) @@
    ("sep_units" :> [type |-> <<"str">>, val |-> None, status |-> "allowed"]) @@
    ("bin_slop" :> [type |-> <<"float">>, val |-> None, status |-> "allowed"]) @@
    ("smooth_scale" :> [type |-> <<"float">>, val |-> None, status |-> "allowed"]) @@
    ("n2_file_name" :> [type |-> <<"str">>, val |-> None, status |-> "disallowed_file"]) @@
    ("n2_statistic" :> [type |-> <<"str">>, val |-> <<<<"c", "o", "m", "p", "e", "n", "s", "a", "t", "e", "d">>, <<"s", "i", "m", "p", "l", "e">>>>, status |-> "allowed"]) @@
    ("ng_file_name" :> [type |-> <<"str">>, val |-> None, status |-> "disallowed_file"]) @@
    ("ng_statistic" :> [type |-> <<"str">>, val |-> <<<<"c", "o", "m", "p", "e", "n", "s", "a", "t", "e", "d">>, <<"s", "i", "m", "p", "l", "e">>>>, status |-> "allowed"]) @@
    ("g2_file_name" :> [type |-> <<"str">>, val |-> None, status |-> "disallowed_file"]) @@
    ("nk_file_name" :> [type |-> <<"str">>, val |-> None, status |-> "disallowed_file"]) @@
    ("nk_statistic" :> [type |-> <<"str">>, val |-> <<<<"c", "o", "m", "p", "e", "n", "s", "a", "t", "e", "d">>, <<"s", "i", "m", "p", "l", "e">>>>, status |-> "allowed"]) @@
    ("k2_file_name" :> [type |-> <<"str">>, val |-> None, status |-> "disallowed_file"]) @@
    ("kg_file_name" :> [type |-> <<"str">>, val |-> <<<<"c", "o", "m", "p", "e", "n", "s", "a", "t", "e", "d">>, <<"s", "i", "m", "p", "l", "e">>>>, status |-> "disallowed_file"]) @@
    ("precision" :> [type |-> <<"int">>, val |-> None, status |-> "allowed"]) @@
    ("m2_file_name" :> [type |-> <<"str">>, val |-> None, status |-> "disallowed_file"]) @@
    ("m2_uform" :> [type |-> <<"str">>, val |-> <<<<"S", "c", "h", "n", "e", "i", "d", "e", "r">>, <<"C", "r", "i", "t", "t", "e", "n", "d", "e", "n">>>>, status |-> "allowed"]) @@
    ("nm_file_name" :> [type |-> <<"str">>, val |-> None, status |-> "disallowed_file"]) @@
    ("norm_file_name" :> [type |-> <<"str">>, val |-> None, status |-> "disallowed_file"]) @@
    ("verbose" :> [type |-> <<"int">>, val |-> None, status |-> "captured"]) @@
    ("num_threads" :> [type |-> <<"int">>, val |-> None, status |-> "captured"]) @@
    ("split_method" :> [type |-> <<"str">>, val |-> <<<<"m", "e", "a", "n">>, <<"m", "e", "d", "i", "a", "n">>, <<"m", "i", "d", "d", "l", "e">>>>, status |-> "allowed"])

Range(f) == {f[i] : i \in DOMAIN f}

-----------------------------------------------------------------------------
(* check_options *)

NoException == [exc |-> "None", site |-> "return", key |-> ""]
Exc(e, s, k) == [exc |-> e, site |-> s, key |-> k]


\* StatusCheck without the test of line 329
StatusCheck_CapturedPasses(key, ok) ==
    IF "str" \in DOMAIN ok THEN Exc("TypeError", "status_lookup", key)
    ELSE IF "status" \notin DOMAIN ok THEN Exc("KeyError", "status_lookup", key)
    ELSE IF ok.status = "disallowed_file" THEN Exc("ValueError", "disallowed_file", key)
    ELSE IF ok.status = "disallowed_computation"
         THEN Exc("ValueError", "disallowed_computation", key)
    ELSE NoException

\* StatusCheck without the test of line 324
StatusCheck_NoComputation(key, ok) ==
    IF "str" \in DOMAIN ok THEN Exc("TypeError", "status_lookup", key)
    ELSE IF "status" \notin DOMAIN ok THEN Exc("KeyError", "status_lookup", key)
    ELSE IF ok.status = "disallowed_file" THEN Exc("ValueError", "disallowed_file", key)
    ELSE IF ok.status = "captured" THEN Exc("ValueError", "captured", key)
    ELSE NoException

\* lines 319-332: the chain of tests on ok['status'].  ok['status'] raises
\* TypeError when ok is a str and KeyError when the dict has no 'status'.
\* check_status is not read.
StatusCheck(key, ok) ==
    IF "str" \in DOMAIN ok THEN Exc("TypeError", "status_lookup", key)
    ELSE IF "status" \notin DOMAIN ok THEN Exc("KeyError", "status_lookup", key)
    ELSE IF ok.status = "disallowed_file" THEN Exc("ValueError", "disallowed_file", key)
    ELSE IF ok.status = "disallowed_computation"
         THEN Exc("ValueError", "disallowed_computation", key)
    ELSE IF ok.status = "captured" THEN Exc("ValueError", "captured", key)
    ELSE NoException


\* type_ok without the assignment of line 341
type_ok_NeverSet(types, value) == FALSE

\* lines 337-343: type_ok after the loop over ok['type']
type_ok(types, value) == \E i \in 1..Len(types) : Convert(types[i], value) # Fail

\* lines 333-347
TypeCheck(key, ok, value) ==
    IF value.t \notin Range(ok.type) /\ ~type_ok(ok.type, value)
    THEN Exc("ValueError", "type_mismatch", key)
    ELSE NoException


\* ValCheck without the test of line 349
ValCheck_Skipped(key, ok, value) == NoException

\* lines 348-351: value not in ok['val'], the members of ok['val'] being strs
ValCheck(key, ok, value) ==
    IF ok.val # <<>> /\ ~(value.t = "str" /\ value.v \in Range(ok.val))
    THEN Exc("ValueError", "invalid_value", key)
    ELSE NoException

\* lines 314-351: the body of the loop for one key
CheckItem(key, value) ==
    IF key \notin DOMAIN options THEN Exc("ValueError", "unknown_option", key)
    ELSE LET ok == options[key]
             st == StatusCheck(key, ok)
         IN  IF st # NoException THEN st
             ELSE LET ty == TypeCheck(key, ok, value)
                  IN  IF ty # NoException THEN ty ELSE ValCheck(key, ok, value)


\* LoopOverKeys leaving the loop after its first pass
LoopOverKeys_FirstOnly(items) ==
    IF items = <<>> THEN NoException ELSE CheckItem(items[1][1], items[1][2])

\* line 313: for key in input_dict, up to the first raise
RECURSIVE LoopOverKeys(_)
LoopOverKeys(items) ==
    IF items = <<>> THEN NoException
    ELSE LET e == CheckItem(items[1][1], items[1][2])
         IN  IF e # NoException THEN e ELSE LoopOverKeys(Tail(items))


\* ReturnedDict with the last item left out
ReturnedDict_WithoutLast(items) == SubSeq(items, 1, Len(items) - 1)

\* ReturnedDict with the result of the first conversion that works stored
\* under the key
ReturnedDict_Converted(items) ==
    [i \in DOMAIN items |->
        LET ty == options[items[i][1]].type
            v == items[i][2]
        IN  IF v.t \in Range(ty) \/ ~type_ok(ty, v) THEN items[i]
            ELSE <<items[i][1],
                   Convert(ty[CHOOSE n \in 1..Len(ty) :
                                 /\ Convert(ty[n], v) # Fail
                                 /\ \A m \in 1..(n - 1) : Convert(ty[m], v) = Fail], v)>>]

\* line 352: return input_dict.  The results of the conversions of line 340
\* were dropped; the dict is the one that came in.
ReturnedDict(items) == items

-----------------------------------------------------------------------------
(* The inputs of check_options *)

MaxKeys == 2

\* One key of every (status, type, val) combination met in the registry,
\* the keys 'project' and 'status', and a key that is not in the registry.
SampleKeys == {"bogus", "file_name", "do_auto_corr", "file_list", "project_ra", "min_sep",
               "split_method", "kg_file_name", "project", "status", "precision",
               "sep_units", "file_type"}

SampleValues == {PyStr(<<"2", "0">>), PyStr(<<"a", "b", "c">>), PyStr(<<"m", "e", "a", "n">>),
                 PyInt(20), PyFloat(5, 1), PyBool(TRUE), PyList(<<PyStr(<<"a">>)>>)}

\* The dicts of at most MaxKeys items, in every iteration order
Dicts == UNION {{d \in [1..n -> SampleKeys \X SampleValues] :
                    \A i, j \in 1..n : i # j => d[i][1] # d[j][1]} : n \in 0..MaxKeys}

NoArray == [shape |-> <<>>, names |-> <<>>, data |-> <<>>]

\* The locals of getCF before its first statement
NoLocals ==
    /\ corr2_kwargs = <<>>
    /\ handles = <<>>
    /\ open_handles = {}
    /\ temp_files = {}
    /\ config_file = <<>>
    /\ output_file = <<>>
    /\ calls = <<>>
    /\ returncode = -1
    /\ return_value = None

\* The variables of getCF outside getCF
NoGetCF ==
    /\ stile_args = <<>>
    /\ correlation_function_type = ""
    /\ data_sets = {}
    /\ save_config = FALSE
    /\ NoLocals
    /\ frames = <<>>
    /\ heap = <<>>

\* No file at all: the value of param_file outside write_corr2_param_file
NoFile == [name |-> FALSE, exists |-> FALSE, mode |-> "closed", text |-> <<>>]

InitValidate ==
    /\ fn = "check_options"
    /\ pc = "call"
    /\ input_dict \in Dicts
    /\ check_status \in BOOLEAN
    /\ file_type = ""
    /\ file_rows = <<>>
    /\ raised = NoException
    /\ ret_dict = <<>>
    /\ ret_array = NoArray
    /\ kwargs = <<>>
    /\ param_file = NoFile
    /\ NoGetCF

\* check_options(input_dict, check_status)
CheckOptions ==
    /\ fn = "check_options"
    /\ pc = "call"
    /\ raised' = LoopOverKeys(input_dict)
    /\ ret_dict' = IF raised' = NoException THEN ReturnedDict(input_dict) ELSE <<>>
    /\ pc' = "done"
    /\ UNCHANGED <<fn, input_dict, check_status, file_type, file_rows, ret_array, wvars,
                   cfvars>>

NextValidate == CheckOptions

SpecValidate == InitValidate /\ [][NextValidate]_vars

-----------------------------------------------------------------------------
(* The column catalog and read_corr2_output_file *)

\* k2_column_maps with the second list as long as the first
k2_column_maps_SameLength == <<
    <<"r_nominal", "r_mean", "xi", "sig_xi", "weight", "npairs">>,
    <<"r_sm", "xi_sm", "sig_sm", "sig_xi", "weight", "npairs">> >>

\* k2_column_maps with a tenth name in the second list
k2_column_maps_TenNames == <<
    <<"r_nominal", "r_mean", "xi", "sig_xi", "weight", "npairs">>,
    <<"r_nominal", "r_mean", "xi", "sig_xi", "weight", "npairs", "r_sm", "xi_sm", "sig_sm",
      "npairs_sm">> >>

\* lines 278-280: column_maps['k2']
k2_column_maps == <<
    <<"r_nominal", "r_mean", "xi", "sig_xi", "weight", "npairs">>,
    <<"r_nominal", "r_mean", "xi", "sig_xi", "weight", "npairs", "r_sm", "xi_sm", "sig_sm">> >>

\* lines 255-296
column_maps ==
    ("n2" :> <<
        <<"r_nominal", "r_mean", "omega", "sig_omega", "dd", "rr">>,
        <<"r_nominal", "r_mean", "omega", "sig_omega", "dd", "rr", "dr", "rd">> >>) @@
    ("ng" :> <<
        <<"r_nominal", "r_mean", "gamt", "gamx", "sig">>,
        <<"r_nominal", "r_mean", "gamt", "gamx", "sig", "weight", "npairs", "gamT_d", "gamX_d", "weight_d", "npairs_d", "gamT_r", "gamX_r", "weight_r", "npairs_r">>,
        <<"r_nominal", "r_mean", "gamt", "gamx", "sig", "r_sm", "gamT_sm", "sig_sm">>,
        <<"r_nominal", "r_mean", "gamt", "gamx", "sig", "weight", "npairs", "gamT_d", "gamX_d", "weight_d", "npairs_d", "gamT_r", "gamX_r", "weight_r", "npairs_r", "r_sm", "gamT_sm", "sig_sm">> >>) @@
    ("g2" :> <<
        <<"r_nominal", "r_mean", "xi+", "xi-", "xi+_im", "xi-_im", "sig_xi", "weight", "npairs">>,
        <<"r_nominal", "r_mean", "xi+", "xi-", "xi+_im", "xi-_im", "sig_xi", "weight", "npairs", "r_sm", "xi+_sm", "xi-_sm", "sig_sm">> >>) @@
    ("nk" :> <<
        <<"r_nominal", "r_mean", "kappa_mean", "sig", "weight", "npairs">>,
        <<"r_nominal", "r_mean", "kappa_mean", "sig", "kappa_d", "weight_d", "pairs_d", "kappa_r", "weight_r", "npairs_r">>,
        <<"r_nominal", "r_mean", "kappa_mean", "sig", "weight", "npairs", "r_sm", "kappa_sm", "sig_sm">>,
        <<"r_nominal", "r_mean", "kappa_mean", "sig", "kappa_d", "weight_d", "pairs_d", "kappa_r", "weight_r", "npairs_r", "r_sm", "kappa_sm", "sig_sm">> >>) @@
    ("k2" :> k2_column_maps) @@
    ("kg" :> <<
        <<"r_nominal", "r_mean", "kgamT_mean", "kgamX_mean", "sig", "weight", "npairs">>,
        <<"r_nominal", "r_mean", "kgamT_mean", "kgamX_mean", "sig", "kgamT_d", "kgamX_d", "weight_d", "npairs_d", "kgamT_r", "kgamX_r", "weight_r", "npairs_r">>,
        <<"r_nominal", "r_mean", "kgamT_mean", "kgamX_mean", "sig", "weight", "npairs", "r_sm", "kgamT_sm", "sig_sm">>,
        <<"r_nominal", "r_mean", "kgamT_mean", "kgamX_mean", "sig", "kgamT_d", "kgamX_d", "weight_d", "npairs_d", "kgamT_r", "kgamX_r", "weight_r", "npairs_r", "r_sm", "kgamT_sm", "sig_sm">> >>) @@
    ("m2" :> <<
        <<"r", "map^2_mean", "mx^2_mean", "mmx_mean_a", "mmx_mean_b", "sig_map", "gam^2_mean", "sig_gam">> >>) @@
    ("nm" :> <<
        <<"r", "nmap_mean", "nmx_mean", "sig_nmap">> >>) @@
    ("norm" :> <<
        <<"r", "nmap_mean", "nmx_mean", "sig_nm", "n^2_mean", "sig_n^2", "map^2_mean", "sig_mm", "nmnorm", "sig_nmnorm", "nnnorm", "sig_nnnorm">> >>)

\* numpy.loadtxt(file_name), line 398: the rows of the file as an array, with
\* the axes of length one squeezed out (ndmin=0).  A file without rows gives
\* an array of shape (0,).
loadtxt(rows) ==
    LET r == Len(rows)
        c == IF r = 0 THEN 0 ELSE Len(rows[1])
    IN  [shape |-> IF r = 0 THEN <<0>>
                   ELSE IF r = 1 /\ c = 1 THEN <<>>
                   ELSE IF r = 1 THEN <<c>>
                   ELSE IF c = 1 THEN <<r>>
                   ELSE <<r, c>>,
         data |-> rows]

RECURSIVE Product(_)
Product(shape) == IF shape = <<>> THEN 1 ELSE shape[1] * Product(Tail(shape))

ArraySize(a) == Product(a.shape)

\* bool(output), which `not output` of line 399 evaluates: false for an array
\* without elements, the truth of the element for an array of one element, and
\* for more elements ValueError ("The truth value of an array with more than
\* one element is ambiguous").
ArrayTruth(a) ==
    IF ArraySize(a) = 0 THEN "False"
    ELSE IF ArraySize(a) = 1 THEN (IF a.data[1][1] # 0 THEN "True" ELSE "False")
    ELSE "ValueError"

\* lines 402-405: the loop that looks for the column map.  Its test reads
\* col_list, a name that is bound nowhere: the first pass raises NameError.
\* Only a file_type without any column map leaves the loop with use_col_map
\* still None.
ColMapLoop(ft, lenline) ==
    IF column_maps[ft] # <<>> THEN Exc("NameError", "col_list", ft)
    ELSE NoException

\* line 410: stile_utils.make_recarray(output, cols=use_col_map, only_floats=True)
make_recarray(output, cols) == [shape |-> output.shape, names |-> cols, data |-> output.data]

\* lines 394-410.  The message of line 396 has two %s and is formatted with
\* one str, which raises TypeError before the ValueError is built.
read_corr2_output_file(rows, ft) ==
    IF ft \notin DOMAIN column_maps
    THEN [raised |-> Exc("TypeError", "unknown_file_type", ft), ret |-> NoArray]
    ELSE LET output == loadtxt(rows)
         IN  IF ArrayTruth(output) = "ValueError"
             THEN [raised |-> Exc("ValueError", "truth_value", ft), ret |-> NoArray]
             ELSE IF ArrayTruth(output) = "False"
             THEN [raised |-> Exc("RuntimeError", "empty_output", ft), ret |-> NoArray]
             ELSE IF output.shape = <<>>
             THEN [raised |-> Exc("IndexError", "shape_index", ft), ret |-> NoArray]
             ELSE LET lenline == output.shape[Len(output.shape)]
                      loop == ColMapLoop(ft, lenline)
                  IN  IF loop # NoException THEN [raised |-> loop, ret |-> NoArray]
                      ELSE \* use_col_map is None: line 406
                           [raised |-> Exc("RuntimeError", "schema_mismatch", ft),
                            ret |-> NoArray]

-----------------------------------------------------------------------------
(* The inputs of read_corr2_output_file *)

MaxRows == 2
MaxCols == 19

SampleFileTypes == DOMAIN column_maps \cup {"hello"}

\* The files of r rows and c columns: all zeros, or all entries different
Files == {<<>>} \cup
         {[i \in 1..r |-> [j \in 1..c |-> fill * (100 * i + j)]] :
             <<r, c, fill>> \in (1..MaxRows) \X (1..MaxCols) \X {0, 1}}

InitParse ==
    /\ fn = "read_corr2_output_file"
    /\ pc = "call"
    /\ input_dict = <<>>
    /\ check_status = TRUE
    /\ file_type \in SampleFileTypes
    /\ file_rows \in Files
    /\ raised = NoException
    /\ ret_dict = <<>>
    /\ ret_array = NoArray
    /\ kwargs = <<>>
    /\ param_file = NoFile
    /\ NoGetCF

\* read_corr2_output_file(file_name, file_type)
ReadCorr2OutputFile ==
    /\ fn = "read_corr2_output_file"
    /\ pc = "call"
    /\ LET r == read_corr2_output_file(file_rows, file_type)
       IN  raised' = r.raised /\ ret_array' = r.ret
    /\ pc' = "done"
    /\ UNCHANGED <<fn, input_dict, check_status, file_type, file_rows, ret_dict, wvars,
                   cfvars>>

NextParse == ReadCorr2OutputFile

SpecParse == InitParse /\ [][NextParse]_vars

-----------------------------------------------------------------------------
(* write_corr2_param_file *)

\* A dict as a value: its items in iteration order
PyDict(items) == [t |-> "dict", v |-> items]

\* The characters of each key of options: what `key` contributes to key+' = '
KeyText ==
    ("file_name" :> <<"f", "i", "l", "e", "_", "n", "a", "m", "e">>) @@
    ("do_auto_corr" :> <<"d", "o", "_", "a", "u", "t", "o", "_", "c", "o", "r", "r">>) @@
    ("do_cross_corr" :> <<"d", "o", "_", "c", "r", "o", "s", "s", "_", "c", "o", "r", "r">>) @@
    ("file_name2" :> <<"f", "i", "l", "e", "_", "n", "a", "m", "e", "2">>) @@
    ("rand_file_name" :> <<"r", "a", "n", "d", "_", "f", "i", "l", "e", "_", "n", "a", "m", "e">>) @@
    ("rand_file_name2" :> <<"r", "a", "n", "d", "_", "f", "i", "l", "e", "_", "n", "a", "m", "e", "2">>) @@
    ("file_list" :> <<"f", "i", "l", "e", "_", "l", "i", "s", "t">>) @@
    ("file_list2" :> <<"f", "i", "l", "e", "_", "l", "i", "s", "t", "2">>) @@
    ("rand_file_list" :> <<"r", "a", "n", "d", "_", "f", "i", "l", "e", "_", "l", "i", "s", "t">>) @@
    ("rand_file_list2" :> <<"r", "a", "n", "d", "_", "f", "i", "l", "e", "_", "l", "i", "s", "t", "2">>) @@
    ("file_type" :> <<"f", "i", "l", "e", "_", "t", "y", "p", "e">>) @@
    ("delimiter" :> <<"d", "e", "l", "i", "m", "i", "t", "e", "r">>) @@
    ("comment_marker" :> <<"c", "o", "m", "m", "e", "n", "t", "_", "m", "a", "r", "k", "e", "r">>) @@
    ("first_row" :> <<"f", "i", "r", "s", "t", "_", "r", "o", "w">>) @@
    ("last_row" :> <<"l", "a", "s", "t", "_", "r", "o", "w">>) @@
    ("x_col" :> <<"x", "_", "c", "o", "l">>) @@
    ("y_col" :> <<"y", "_", "c", "o", "l">>) @@
    ("ra_col" :> <<"r", "a", "_", "c", "o", "l">>) @@
    ("dec_col" :> <<"d", "e", "c", "_", "c", "o", "l">>) @@
    ("x_units" :> <<"x", "_", "u", "n", "i", "t", "s">>) @@
    ("y_units" :> <<"y", "_", "u", "n", "i", "t", "s">>) @@
    ("ra_units" :> <<"r", "a", "_", "u", "n", "i", "t", "s">>) @@
    ("dec_units" :> <<"d", "e", "c", "_", "u", "n", "i", "t", "s">>) @@
    ("g1_col" :> <<"g", "1", "_", "c", "o", "l">>) @@
    ("g2_col" :> <<"g", "2", "_", "c", "o", "l">>) @@
    ("k_col" :> <<"k", "_", "c", "o", "l">>) @@
    ("w_col" :> <<"w", "_", "c", "o", "l">>) @@
    ("flip_g1" :> <<"f", "l", "i", "p", "_", "g", "1">>) @@
    ("flip_g2" :> <<"f", "l", "i", "p", "_", "g", "2">>) @@
    ("pairwise" :> <<"p", "a", "i", "r", "w", "i", "s", "e">>) @@
    ("project" :> <<"p", "r", "o", "j", "e", "c", "t">>) @@
    ("status" :> <<"s", "t", "a", "t", "u", "s">>) @@
    ("project_ra" :> <<"p", "r", "o", "j", "e", "c", "t", "_", "r", "a">>) @@
    ("project_dec" :> <<"p", "r", "o", "j", "e", "c", "t", "_", "d", "e", "c">>) @@
    ("min_sep" :> <<"m", "i", "n", "_", "s", "e", "p">>) @@
    ("max_sep" :> <<"m", "a", "x", "_", "s", "e", "p">>) @@
    ("nbins" :> <<"n", "b", "i", "n", "s">>) @@
    ("bin_size" :> <<"b", "i", "n", "_", "s", "i", "z", "e">>) @@
    ("sep_units" :> <<"s", "e", "p", "_", "u", "n", "i", "t", "s">>) @@
    ("bin_slop" :> <<"b", "i", "n", "_", "s", "l", "o", "p">>) @@
    ("smooth_scale" :> <<"s", "m", "o", "o", "t", "h", "_", "s", "c", "a", "l", "e">>) @@
    ("n2_file_name" :> <<"n", "2", "_", "f", "i", "l", "e", "_", "n", "a", "m", "e">>) @@
    ("n2_statistic" :> <<"n", "2", "_", "s", "t", "a", "t", "i", "s", "t", "i", "c">>) @@
    ("ng_file_name" :> <<"n", "g", "_", "f", "i", "l", "e", "_", "n", "a", "m", "e">>) @@
    ("ng_statistic" :> <<"n", "g", "_", "s", "t", "a", "t", "i", "s", "t", "i", "c">>) @@
    ("g2_file_name" :> <<"g", "2", "_", "f", "i", "l", "e", "_", "n", "a", "m", "e">>) @@
    ("nk_file_name" :> <<"n", "k", "_", "f", "i", "l", "e", "_", "n", "a", "m", "e">>) @@
    ("nk_statistic" :> <<"n", "k", "_", "s", "t", "a", "t", "i", "s", "t", "i", "c">>) @@
    ("k2_file_name" :> <<"k", "2", "_", "f", "i", "l", "e", "_", "n", "a", "m", "e">>) @@
    ("kg_file_name" :> <<"k", "g", "_", "f", "i", "l", "e", "_", "n", "a", "m", "e">>) @@
    ("precision" :> <<"p", "r", "e", "c", "i", "s", "i", "o", "n">>) @@
    ("m2_file_name" :> <<"m", "2", "_", "f", "i", "l", "e", "_", "n", "a", "m", "e">>) @@
    ("m2_uform" :> <<"m", "2", "_", "u", "f", "o", "r", "m">>) @@
    ("nm_file_name" :> <<"n", "m", "_", "f", "i", "l", "e", "_", "n", "a", "m", "e">>) @@
    ("norm_file_name" :> <<"n", "o", "r", "m", "_", "f", "i", "l", "e", "_", "n", "a", "m", "e">>) @@
    ("verbose" :> <<"v", "e", "r", "b", "o", "s", "e">>) @@
    ("num_threads" :> <<"n", "u", "m", "_", "t", "h", "r", "e", "a", "d", "s">>) @@
    ("split_method" :> <<"s", "p", "l", "i", "t", "_", "m", "e", "t", "h", "o", "d">>)

\* f=open(param_file_name): no mode is given, so the file is opened for
\* reading, and open raises IOError when no such file exists.
OpenParamFile(f) == [f EXCEPT !.mode = "r"]

\* f.write(key+' = ' + kwargs[key]+'\n'): the string is built first, and
\* str + value raises TypeError unless value is a str; write raises IOError on
\* a file that is not open for writing.
WriteLine(key, value, f) ==
    IF value.t # "str" THEN [raised |-> Exc("TypeError", "concatenate", key), f |-> f]
    ELSE IF f.mode # "w" THEN [raised |-> Exc("IOError", "write", key), f |-> f]
    ELSE [raised |-> NoException,
          f |-> [f EXCEPT !.text = @ \o KeyText[key] \o <<" ", "=", " ">>
                                      \o value.v \o <<"\n">>]]

\* The loop over kwargs.  A dict under a key that is not in options is
\* handed to write_corr2_param_file(f, kwargs[key]): a second positional
\* argument, which the signature (param_file_name, **kwargs) does not take.
RECURSIVE WriteLoop(_, _)
WriteLoop(items, f) ==
    IF items = <<>> THEN [raised |-> NoException, f |-> f]
    ELSE LET key == items[1][1]
             value == items[1][2]
         IN  IF key \in DOMAIN options
             THEN LET w == WriteLine(key, value, f)
                  IN  IF w.raised # NoException THEN w ELSE WriteLoop(Tail(items), w.f)
             ELSE IF value.t = "dict"
             THEN [raised |-> Exc("TypeError", "nested_call", key), f |-> f]
             ELSE [raised |-> Exc("ValueError", "unknown_key", key), f |-> f]

\* write_corr2_param_file(param_file_name, **kwargs): the exception it ends
\* with and the file it leaves.  A file it opened is closed only when the loop
\* ends without an exception.
write_corr2_param_file(dest, kw) ==
    IF dest.name
    THEN IF ~dest.exists THEN [raised |-> Exc("IOError", "open", ""), f |-> dest]
         ELSE LET w == WriteLoop(kw, OpenParamFile(dest))
              IN  IF w.raised # NoException THEN w
                  ELSE [raised |-> NoException, f |-> [w.f EXCEPT !.mode = "closed"]]
    ELSE WriteLoop(kw, dest)

-----------------------------------------------------------------------------
(* The inputs of write_corr2_param_file *)

\* Keys of the registry, a key that is not in it, and the key of a nested dict
SerializeKeys == {"file_name", "min_sep", "do_auto_corr", "bogus", "corr2_options"}

SerializeValues == SampleValues \cup
                   {PyDict(<<>>), PyDict(<< <<"file_name", PyStr(<<"a", "b", "c">>)>> >>)}

KwargsDicts == UNION {{d \in [1..n -> SerializeKeys \X SerializeValues] :
                          \A i, j \in 1..n : i # j => d[i][1] # d[j][1]} : n \in 0..MaxKeys}

\* param_file_name is the name of a file that exists or not, or a file object
\* open for writing or for reading
ParamFiles == {[name |-> TRUE, exists |-> x, mode |-> "closed", text |-> <<>>] : x \in BOOLEAN}
              \cup {[name |-> FALSE, exists |-> TRUE, mode |-> m, text |-> <<>>] : m \in {"w", "r"}}

InitSerialize ==
    /\ fn = "write_corr2_param_file"
    /\ pc = "call"
    /\ input_dict = <<>>
    /\ check_status = TRUE
    /\ file_type = ""
    /\ file_rows = <<>>
    /\ raised = NoException
    /\ ret_dict = <<>>
    /\ ret_array = NoArray
    /\ kwargs \in KwargsDicts
    /\ param_file \in ParamFiles
    /\ NoGetCF

\* write_corr2_param_file(param_file_name, **kwargs)
WriteCorr2ParamFile ==
    /\ fn = "write_corr2_param_file"
    /\ pc = "call"
    /\ LET w == write_corr2_param_file(param_file, kwargs)
       IN  raised' = w.raised /\ param_file' = w.f
    /\ pc' = "done"
    /\ UNCHANGED <<fn, input_dict, check_status, file_type, file_rows, ret_dict, ret_array,
                   kwargs, cfvars>>

NextSerialize == WriteCorr2ParamFile

SpecSerialize == InitSerialize /\ [][NextSerialize]_vars

-----------------------------------------------------------------------------
(* Dicts, as their items in iteration order *)

HasKey(d, k) == \E i \in 1..Len(d) : d[i][1] = k
KeysOf(d) == {d[i][1] : i \in 1..Len(d)}
GetItem(d, k) == d[CHOOSE i \in 1..Len(d) : d[i][1] = k][2]

\* d[k] = v
SetItem(d, k, v) ==
    IF HasKey(d, k) THEN [i \in 1..Len(d) |-> IF d[i][1] = k THEN <<k, v>> ELSE d[i]]
    ELSE Append(d, <<k, v>>)

\* d.update(e)
RECURSIVE Update(_, _)
Update(d, e) == IF e = <<>> THEN d ELSE Update(SetItem(d, e[1][1], e[1][2]), Tail(e))

-----------------------------------------------------------------------------
(* CorrelationFunctionSysTest.getCF *)

\* The statements of getCF in the order they run, by the step each one ends
Following_CheckAfterMkstemp(step) ==
    CASE step = "call" -> "files"
      [] step = "files" -> "mkstemp"
      [] step = "mkstemp" -> "check"
      [] step = "check" -> "write"
      [] step = "write" -> "invoke"
      [] step = "invoke" -> "read"
      [] step = "read" -> "done"

Following(step) ==
    CASE step = "call" -> "files"
      [] step = "files" -> "check"
      [] step = "check" -> "mkstemp"
      [] step = "mkstemp" -> "write"
      [] step = "write" -> "invoke"
      [] step = "invoke" -> "read"
      [] step = "read" -> "done"

\* corr2_kwargs = copy.deepcopy(stile_args['corr2_kwargs']); corr2_kwargs.update(kwargs)
MergedKwargs_StileArgsWin(harvested, kw) == Update(kw, harvested)

MergedKwargs(harvested, kw) == Update(harvested, kw)

\* stile.MakeCorr2FileKwargs(data,data2,random,random2): the collaborator that
\* writes the data sets to files and returns the file-location options, one
\* for each data set that is not None
DataFileOption == ("data" :> "file_name") @@ ("data2" :> "file_name2") @@
                  ("random" :> "rand_file_name") @@ ("random2" :> "rand_file_name2")

DataFileName == PyStr(<<"d", "a", "t", "a">>)

MakeCorr2FileKwargs(given) ==
    LET order == <<"data", "data2", "random", "random2">>
        kept == SelectSeq(order, LAMBDA s : s \in given)
    IN  [i \in 1..Len(kept) |-> <<DataFileOption[kept[i]], DataFileName>>]

\* The two tests of lines 119-123 and the exception they end with
FileKwargCheck_NoTest(merged) == NoException

FileKwargCheck(merged) ==
    IF ~(HasKey(merged, "file_list") \/ HasKey(merged, "file_name"))
    THEN Exc("ValueError", "no_file_kwarg", "")
    ELSE IF /\ HasKey(merged, "rand_list2") \/ HasKey(merged, "rand_name2")
            /\ ~(HasKey(merged, "file_name2") \/ HasKey(merged, "file_list2"))
    THEN Exc("ValueError", "no_file_2", "")
    ELSE NoException

\* correlation_function_type+'_file_name'
OutputFileOption ==
    ("n2" :> "n2_file_name") @@ ("ng" :> "ng_file_name") @@ ("g2" :> "g2_file_name") @@
    ("nk" :> "nk_file_name") @@ ("k2" :> "k2_file_name") @@ ("kg" :> "kg_file_name") @@
    ("m2" :> "m2_file_name") @@ ("nm" :> "nm_file_name") @@ ("norm" :> "norm_file_name")

\* tempfile.mkstemp(dir=...): the path of a file that did not exist
TempDir(here) == IF here THEN <<".">> ELSE <<"/", "t", "m", "p">>
MkstempPath(dir, existing) == dir \o <<"/", "t", "m", "p">> \o NatStr(Cardinality(existing) + 1)

\* stile.WriteCorr2ConfigurationFile(config_file,corr2_kwargs): the serializer.
\* A key that is not in the registry, with a value that is not a mapping, is
\* an UnserializableOption.
Unserializable(merged) == {i \in 1..Len(merged) :
                              merged[i][1] \notin DOMAIN options /\ merged[i][2].t # "dict"}

WriteCorr2ConfigurationFile(merged) ==
    IF Unserializable(merged) = {} THEN NoException
    ELSE Exc("UnserializableOption", "WriteCorr2ConfigurationFile",
             merged[CHOOSE i \in Unserializable(merged) :
                        \A j \in Unserializable(merged) : i <= j][1])

\* subprocess.check_call(['corr2', config_file]): CalledProcessError when the
\* exit status is not 0
CheckCall_IgnoreStatus(status) == NoException

CheckCall(status) ==
    IF status = 0 THEN NoException ELSE Exc("CalledProcessError", "check_call", "")

\* stile.ReadCorr2ResultsFile(output_file): the parser, by what it finds in
\* the file corr2 wrote
ParseOutcomes == {"ResultRecordSet", "EmptyOutput", "SchemaMismatch"}

ReadCorr2ResultsFile(found) ==
    IF found = "ResultRecordSet" THEN NoException
    ELSE Exc(found, "ReadCorr2ResultsFile", "")

-----------------------------------------------------------------------------
(* The inputs of getCF *)

MaxArgs == 1

\* The file options the tests of lines 119-123 name, their registry
\* spellings, options a caller may not set, one it may, and an unknown key
CFKeys == {"file_name", "file_list", "file_name2", "rand_name2", "rand_file_name2",
           "do_auto_corr", "ng_file_name", "min_sep", "bogus"}

\* The dicts of at most MaxArgs items with a given value
ArgDicts(value) == UNION {{d \in [1..n -> CFKeys \X {value}] :
                              \A i, j \in 1..n : i # j => d[i][1] # d[j][1]} : n \in 0..MaxArgs}

HarvestedValue == PyStr(<<"a", "b", "c">>)
OverrideValue == PyInt(20)

\* stile_args with or without the key 'corr2_kwargs'
StileArgs == {<<>>} \cup {<< <<"corr2_kwargs", PyDict(d)>> >> : d \in ArgDicts(HarvestedValue)}

InitGetCF ==
    /\ fn = "getCF"
    /\ pc = "call"
    /\ input_dict = <<>>
    /\ check_status = TRUE
    /\ file_type = ""
    /\ file_rows = <<>>
    /\ raised = NoException
    /\ ret_dict = <<>>
    /\ ret_array = NoArray
    /\ kwargs \in ArgDicts(OverrideValue)
    /\ param_file = NoFile
    /\ stile_args \in StileArgs
    /\ correlation_function_type \in {"ng", "k2"}
    /\ data_sets \in SUBSET {"data", "random2"}
    /\ save_config \in BOOLEAN
    /\ NoLocals
    /\ frames = <<>>
    /\ heap = <<>>

\* What a step of getCF leaves alone
cfargs == <<fn, input_dict, check_status, file_type, file_rows, ret_dict, ret_array, wvars,
            stile_args, correlation_function_type, data_sets, save_config, frames, heap>>

\* Lines 101-104.  AddCorr2Dict is not an attribute of stile.corr2_utils.
Collect ==
    /\ fn = "getCF"
    /\ pc = "call"
    /\ IF ~HasKey(stile_args, "corr2_kwargs")
       THEN /\ raised' = Exc("AttributeError", "AddCorr2Dict", "")
            /\ pc' = "done"
            /\ UNCHANGED corr2_kwargs
       ELSE /\ corr2_kwargs' = MergedKwargs(GetItem(stile_args, "corr2_kwargs").v, kwargs)
            /\ pc' = Following("call")
            /\ UNCHANGED raised
    /\ UNCHANGED <<cfargs, handles, open_handles, temp_files, config_file, output_file, calls,
                   returncode, return_value>>

\* Lines 115-116
MakeFiles ==
    /\ fn = "getCF"
    /\ pc = "files"
    /\ calls' = Append(calls, <<"MakeCorr2FileKwargs", data_sets>>)
    /\ corr2_kwargs' = Update(corr2_kwargs, MakeCorr2FileKwargs(data_sets))
    /\ pc' = Following("files")
    /\ UNCHANGED <<cfargs, raised, handles, open_handles, temp_files, config_file, output_file,
                   returncode, return_value>>

\* Lines 119-123
CheckFileKwargs ==
    /\ fn = "getCF"
    /\ pc = "check"
    /\ raised' = FileKwargCheck(corr2_kwargs)
    /\ pc' = IF raised' = NoException THEN Following("check") ELSE "done"
    /\ UNCHANGED <<cfargs, corr2_kwargs, handles, open_handles, temp_files, config_file,
                   output_file, calls, returncode, return_value>>

\* Lines 125-133
MakeTempFiles ==
    /\ fn = "getCF"
    /\ pc = "mkstemp"
    /\ LET config == MkstempPath(TempDir(save_config), temp_files)
           output == MkstempPath(TempDir(FALSE), temp_files \cup {config})
       IN  /\ config_file' = config
           /\ output_file' = output
           /\ temp_files' = temp_files \cup {config, output}
           /\ handles' = handles \o <<config, output>>
           /\ open_handles' = open_handles \cup {config, output}
           /\ calls' = calls \o << <<"mkstemp", TempDir(save_config)>>,
                                   <<"mkstemp", TempDir(FALSE)>> >>
           /\ corr2_kwargs' = SetItem(corr2_kwargs,
                                      OutputFileOption[correlation_function_type],
                                      PyStr(output))
    /\ pc' = Following("mkstemp")
    /\ UNCHANGED <<cfargs, raised, returncode, return_value>>

\* Line 135
WriteConfig ==
    /\ fn = "getCF"
    /\ pc = "write"
    /\ calls' = Append(calls, <<"WriteCorr2ConfigurationFile", <<config_file, corr2_kwargs>> >>)
    /\ raised' = WriteCorr2ConfigurationFile(corr2_kwargs)
    /\ pc' = IF raised' = NoException THEN Following("write") ELSE "done"
    /\ UNCHANGED <<cfargs, corr2_kwargs, handles, open_handles, temp_files, config_file,
                   output_file, returncode, return_value>>

\* Line 138
InvokeCorr2 ==
    /\ fn = "getCF"
    /\ pc = "invoke"
    /\ calls' = Append(calls, <<"check_call", <<"corr2", config_file>> >>)
    /\ \E status \in {0, 1} :
          /\ returncode' = status
          /\ raised' = CheckCall(status)
    /\ pc' = IF raised' = NoException THEN Following("invoke") ELSE "done"
    /\ UNCHANGED <<cfargs, corr2_kwargs, handles, open_handles, temp_files, config_file,
                   output_file, return_value>>

\* Lines 140-143
ReadResults ==
    /\ fn = "getCF"
    /\ pc = "read"
    /\ calls' = Append(calls, <<"ReadCorr2ResultsFile", <<output_file>> >>)
    /\ \E found \in ParseOutcomes :
          /\ raised' = ReadCorr2ResultsFile(found)
          /\ IF raised' = NoException
             THEN /\ open_handles' = open_handles \ Range(handles)
                  /\ return_value' = found
             ELSE UNCHANGED <<open_handles, return_value>>
    /\ pc' = IF raised' = NoException THEN Following("read") ELSE "done"
    /\ UNCHANGED <<cfargs, corr2_kwargs, handles, temp_files, config_file, output_file,
                   returncode>>

NextGetCF == \/ Collect
             \/ MakeFiles
             \/ CheckFileKwargs
             \/ MakeTempFiles
             \/ WriteConfig
             \/ InvokeCorr2
             \/ ReadResults

SpecGetCF == InitGetCF /\ [][NextGetCF]_vars

-----------------------------------------------------------------------------
(* add_corr2_dict *)

\* Lines 421-424: the items of input_dict whose key is in options.  (They are
\* kept here in the order of input_dict; a dict has no order of its own.)
corr2_dict(items) == SelectSeq(items, LAMBDA it : it[1] \in DOMAIN options)

\* add_corr2_dict(input_dict): the exception it ends with and the dict it
\* returns, which is input_dict itself.  What is under 'corr2_options' must
\* have an update method: lines 425-428.
add_corr2_dict(items) ==
    IF HasKey(items, "corr2_options")
    THEN IF GetItem(items, "corr2_options").t # "dict"
         THEN [raised |-> Exc("AttributeError", "update", "corr2_options"), dict |-> items]
         ELSE [raised |-> NoException,
               dict |-> SetItem(items, "corr2_options",
                                PyDict(Update(GetItem(items, "corr2_options").v,
                                              corr2_dict(items))))]
    ELSE [raised |-> NoException,
          dict |-> Append(items, <<"corr2_options", PyDict(corr2_dict(items))>>)]

\* Keys of options, a key that is not, and the key of the harvested dict
HarvestKeys == {"file_name", "min_sep", "bogus", "corr2_options"}

HarvestValues == {PyStr(<<"a", "b", "c">>), PyInt(20), PyDict(<<>>),
                  PyDict(<< <<"file_name", PyStr(<<"2", "0">>)>> >>),
                  PyDict(<< <<"nbins", PyInt(20)>> >>)}

HarvestDicts == UNION {{d \in [1..n -> HarvestKeys \X HarvestValues] :
                           \A i, j \in 1..n : i # j => d[i][1] # d[j][1]} : n \in 0..MaxKeys}

InitHarvest ==
    /\ fn = "add_corr2_dict"
    /\ pc = "call"
    /\ input_dict \in HarvestDicts
    /\ check_status = TRUE
    /\ file_type = ""
    /\ file_rows = <<>>
    /\ raised = NoException
    /\ ret_dict = <<>>
    /\ ret_array = NoArray
    /\ kwargs = <<>>
    /\ param_file = NoFile
    /\ NoGetCF

\* add_corr2_dict(input_dict).  The dict returned is input_dict itself,
\* changed in place; input_dict keeps here what the dict held at the call.
AddCorr2Dict ==
    /\ fn = "add_corr2_dict"
    /\ pc = "call"
    /\ LET h == add_corr2_dict(input_dict)
       IN  /\ raised' = h.raised
           /\ ret_dict' = IF h.raised = NoException THEN h.dict ELSE <<>>
    /\ pc' = "done"
    /\ UNCHANGED <<fn, input_dict, check_status, file_type, file_rows, ret_array, wvars,
                   cfvars>>

NextHarvest == AddCorr2Dict

SpecHarvest == InitHarvest /\ [][NextHarvest]_vars

-----------------------------------------------------------------------------
(* Two calls of getCF at the same time, with the same stile_args *)

Threads == {1, 2}

\* Where stile_args['corr2_kwargs'] is among heap.objects
CallerObject == 1

\* copy.deepcopy(stile_args['corr2_kwargs']), line 103: a new object with the
\* items of the one copied
DeepCopy_SameObject(objects, src) == [objects |-> objects, ref |-> src]

DeepCopy(objects, src) == [objects |-> Append(objects, objects[src]), ref |-> Len(objects) + 1]

\* The **kwargs of a call: nothing, an option, a file option
ThreadKwargs == {d \in ArgDicts(OverrideValue) : KeysOf(d) \subseteq {"min_sep", "file_name"}}

\* Both calls are at their first statement.  heap holds the two dicts of the
\* module corr2_utils and the dict under stile_args['corr2_kwargs'].
InitTwoCalls ==
    /\ fn = "getCF"
    /\ pc = "threads"
    /\ input_dict = <<>>
    /\ check_status = TRUE
    /\ file_type = ""
    /\ file_rows = <<>>
    /\ raised = NoException
    /\ ret_dict = <<>>
    /\ ret_array = NoArray
    /\ kwargs = <<>>
    /\ param_file = NoFile
    /\ stile_args \in {a \in StileArgs :
                          HasKey(a, "corr2_kwargs") =>
                             KeysOf(GetItem(a, "corr2_kwargs").v) \subseteq {"file_name"}}
    /\ correlation_function_type = ""
    /\ data_sets \in {{}, {"data"}}
    /\ save_config = FALSE
    /\ NoLocals
    /\ frames \in [Threads -> [pc : {"call"},
                               kwargs : ThreadKwargs,
                               correlation_function_type : {"ng", "k2"},
                               save_config : BOOLEAN,
                               corr2_kwargs : {0},
                               config_file : {<<>>},
                               output_file : {<<>>},
                               raised : {NoException}]]
    /\ heap = [options |-> options,
               column_maps |-> column_maps,
               objects |-> IF HasKey(stile_args, "corr2_kwargs")
                           THEN <<GetItem(stile_args, "corr2_kwargs").v>>
                           ELSE <<>>]

\* What a statement of either call leaves alone
threadargs == <<fn, pc, input_dict, check_status, file_type, file_rows, raised, ret_dict,
                ret_array, wvars, stile_args, correlation_function_type, data_sets,
                save_config, corr2_kwargs, handles, open_handles, config_file, output_file,
                calls, returncode, return_value>>

\* Call c is about to run the statements named step
At(c, step) == fn = "getCF" /\ pc = "threads" /\ frames[c].pc = step

\* Lines 101-103
CopyKwargs(c) ==
    /\ At(c, "call")
    /\ IF ~HasKey(stile_args, "corr2_kwargs")
       THEN /\ frames' = [frames EXCEPT ![c].pc = "done",
                                        ![c].raised = Exc("AttributeError", "AddCorr2Dict", "")]
            /\ UNCHANGED heap
       ELSE LET copy == DeepCopy(heap.objects, CallerObject)
            IN  /\ heap' = [heap EXCEPT !.objects = copy.objects]
                /\ frames' = [frames EXCEPT ![c].pc = "update",
                                            ![c].corr2_kwargs = copy.ref]
    /\ UNCHANGED <<threadargs, temp_files>>

\* Lines 104-116
UpdateKwargs(c) ==
    /\ At(c, "update")
    /\ heap' = [heap EXCEPT !.objects[frames[c].corr2_kwargs] =
                               Update(MergedKwargs(@, frames[c].kwargs),
                                      MakeCorr2FileKwargs(data_sets))]
    /\ frames' = [frames EXCEPT ![c].pc = "check"]
    /\ UNCHANGED <<threadargs, temp_files>>

\* Lines 119-123
CheckKwargs(c) ==
    /\ At(c, "check")
    /\ LET exc == FileKwargCheck(heap.objects[frames[c].corr2_kwargs])
       IN  frames' = [frames EXCEPT ![c].raised = exc,
                                    ![c].pc = IF exc = NoException THEN "mkstemp" ELSE "done"]
    /\ UNCHANGED <<threadargs, heap, temp_files>>

\* Lines 125-129
MkstempConfig(c) ==
    /\ At(c, "mkstemp")
    /\ LET config == MkstempPath(TempDir(frames[c].save_config), temp_files)
       IN  /\ temp_files' = temp_files \cup {config}
           /\ frames' = [frames EXCEPT ![c].config_file = config,
                                       ![c].pc = "mkstemp_output"]
    /\ UNCHANGED <<threadargs, heap>>

\* Lines 130-133
MkstempOutput(c) ==
    /\ At(c, "mkstemp_output")
    /\ LET output == MkstempPath(TempDir(FALSE), temp_files)
       IN  /\ temp_files' = temp_files \cup {output}
           /\ heap' = [heap EXCEPT !.objects[frames[c].corr2_kwargs] =
                                      SetItem(@, OutputFileOption[frames[c].correlation_function_type],
                                              PyStr(output))]
           /\ frames' = [frames EXCEPT ![c].output_file = output,
                                       ![c].pc = "write"]
    /\ UNCHANGED threadargs

\* Lines 135-143
RunCorr2(c) ==
    /\ At(c, "write")
    /\ \E status \in {0, 1}, found \in ParseOutcomes :
          LET written == WriteCorr2ConfigurationFile(heap.objects[frames[c].corr2_kwargs])
              exc == IF written # NoException THEN written
                     ELSE IF CheckCall(status) # NoException THEN CheckCall(status)
                     ELSE ReadCorr2ResultsFile(found)
          IN  frames' = [frames EXCEPT ![c].raised = exc, ![c].pc = "done"]
    /\ UNCHANGED <<threadargs, heap, temp_files>>

NextTwoCalls == \/ \E c \in Threads : CopyKwargs(c)
                \/ \E c \in Threads : UpdateKwargs(c)
                \/ \E c \in Threads : CheckKwargs(c)
                \/ \E c \in Threads : MkstempConfig(c)
                \/ \E c \in Threads : MkstempOutput(c)
                \/ \E c \in Threads : RunCorr2(c)

SpecTwoCalls == InitTwoCalls /\ [][NextTwoCalls]_vars

-----------------------------------------------------------------------------
(* All the functions *)

Init == InitValidate \/ InitParse \/ InitSerialize \/ InitGetCF \/ InitHarvest
           \/ InitTwoCalls

Next == CheckOptions \/ ReadCorr2OutputFile \/ WriteCorr2ParamFile \/ NextGetCF
           \/ AddCorr2Dict \/ NextTwoCalls

Spec == Init /\ [][Next]_vars

-----------------------------------------------------------------------------
(* The errors of check_options, by the raise that produces them *)

Done == pc = "done"
Validated == Done /\ fn = "check_options"
Accepted == raised = NoException
UnknownOption == raised.site = "unknown_option"
ForbiddenOption == raised.site \in {"disallowed_file", "disallowed_computation"}
TypeMismatch == raised.site = "type_mismatch"
InvalidValue == raised.site = "invalid_value"

KeyAt(i) == input_dict[i][1]
ValueAt(i) == input_dict[i][2]

\* The position of the key the call raised at; past the end if it returned
RaisedAt == IF raised = NoException THEN Len(input_dict) + 1
            ELSE CHOOSE i \in DOMAIN input_dict : KeyAt(i) = raised.key

First(S) == CHOOSE i \in S : \A j \in S : i <= j

Registered(k) == k \in DOMAIN options
HasDescriptor(k) == Registered(k) /\ DOMAIN options[k] = {"type", "val", "status"}
StatusOf(k) == options[k].status
Forbidden(k) == HasDescriptor(k) /\ StatusOf(k) \in {"disallowed_computation", "disallowed_file"}
PassedThrough(k) == HasDescriptor(k) /\ StatusOf(k) = "allowed"

TypeListed(k, v) == v.t \in Range(options[k].type)
Coercible(k, v) == \E ty \in Range(options[k].type) : Convert(ty, v) # Fail
InAllowedValues(k, v) == v.t = "str" /\ v.v \in Range(options[k].val)
Restricted(k) == options[k].val # <<>>

\* The result of the first type of ok['type'], in order, that converts v
FirstConverted(k, v) ==
    LET ty == options[k].type
        n == First({m \in 1..Len(ty) : Convert(ty[m], v) # Fail})
    IN  Convert(ty[n], v)

UnknownAt == {i \in DOMAIN input_dict : ~Registered(KeyAt(i))}
ForbiddenAt == {i \in DOMAIN input_dict : Forbidden(KeyAt(i))}

\* The configurations on which the registry and the status check of the code
\* are the ones of the specification: no 'captured' key, and neither 'project'
\* nor 'status'
PlainKeys == \A i \in DOMAIN input_dict :
                ~Registered(KeyAt(i)) \/ Forbidden(KeyAt(i)) \/ PassedThrough(KeyAt(i))

-----------------------------------------------------------------------------
(* Claims about check_options *)

\* C1 as stated: every configuration with a key that is not in the registry
\* fails with UnknownOption, whatever the value.  (Stated for check_status
\* true and the configurations of PlainKeys, which is enough to refute it.)
C1_UnknownKeyAlwaysUnknownOption ==
    (Validated /\ check_status /\ PlainKeys /\ UnknownAt # {}) => UnknownOption

\* C1, amended: every configuration with a key that is not in the registry is
\* rejected, whatever check_status and the value; the call raises at that key
\* or at a key iterated before it, and when it raises at the first unregistered
\* key the error is UnknownOption.
C1_UnknownKeyRejected ==
    (Validated /\ UnknownAt # {}) =>
        /\ ~Accepted
        /\ ret_dict = <<>>
        /\ RaisedAt <= First(UnknownAt)
        /\ RaisedAt = First(UnknownAt) => UnknownOption

C1_Witness ==
    /\ Validated
    /\ ~check_status
    /\ Len(input_dict) = 2
    /\ KeyAt(1) = "sep_units"
    /\ KeyAt(2) = "bogus"
    /\ UnknownOption
    /\ raised.key = "bogus"

\* C2 as stated: with check_status true, every configuration with a
\* disallowed_computation or disallowed_file key fails with ForbiddenOption.
\* (Stated for the configurations of PlainKeys, which is enough to refute it.)
C2_ForbiddenKeyAlwaysForbiddenOption ==
    (Validated /\ check_status /\ PlainKeys /\ ForbiddenAt # {}) => ForbiddenOption

\* C2, amended: with check_status true, every configuration with a
\* disallowed_computation or disallowed_file key is rejected, whatever the
\* type of its value; the call raises at that key or at a key iterated before
\* it, and when it raises at the first such key the error is ForbiddenOption.
C2_ForbiddenKeyRejected ==
    (Validated /\ check_status /\ ForbiddenAt # {}) =>
        /\ ~Accepted
        /\ ret_dict = <<>>
        /\ RaisedAt <= First(ForbiddenAt)
        /\ RaisedAt = First(ForbiddenAt) => ForbiddenOption

C2_Witness ==
    /\ Validated
    /\ check_status
    /\ input_dict = << <<"do_auto_corr", PyStr(<<"a", "b", "c">>)>> >>
    /\ ForbiddenOption
    /\ raised.site = "disallowed_computation"

\* C3: with check_status false no call fails because of a key's status: a
\* configuration of registered keys, some of them disallowed_computation or
\* disallowed_file, whose values satisfy the type and the allowed values, is
\* accepted and returned.
C3_TypesOnlyPassAcceptsOwnedKeys ==
    ( /\ Validated
      /\ ~check_status
      /\ ForbiddenAt # {}
      /\ \A i \in DOMAIN input_dict :
            /\ Forbidden(KeyAt(i)) \/ PassedThrough(KeyAt(i))
            /\ TypeListed(KeyAt(i), ValueAt(i)) \/ Coercible(KeyAt(i), ValueAt(i))
            /\ Restricted(KeyAt(i)) => InAllowedValues(KeyAt(i), ValueAt(i)) )
    => (Accepted /\ ret_dict = input_dict)

\* C4 as stated: for a registered option and a value whose type is not in
\* allowed_types, the call accepts the value if and only if a conversion into
\* one of the allowed types works, and fails with TypeMismatch otherwise.
\* (Stated for check_status true and a configuration of that one key, taken
\* among PlainKeys, which is enough to refute it.)
C4_AcceptedIffCoercible ==
    ( /\ Validated
      /\ check_status
      /\ Len(input_dict) = 1
      /\ PlainKeys
      /\ HasDescriptor(KeyAt(1))
      /\ ~TypeListed(KeyAt(1), ValueAt(1)) )
    => /\ Accepted <=> Coercible(KeyAt(1), ValueAt(1))
       /\ ~Coercible(KeyAt(1), ValueAt(1)) => TypeMismatch

\* C4, amended: for a key that gets to the type check (a registered key of
\* status 'allowed', no earlier key having raised) and a value whose type is
\* not in allowed_types, the call raises TypeMismatch at that key if and only
\* if no conversion into an allowed type works; a value that converts goes on
\* to the allowed-values check and is accepted when it is alone and the option
\* has no allowed values.  The str "20" is accepted for the float option
\* project_ra and the str "abc" is rejected for it with TypeMismatch.
C4_TypeMismatchIffNotCoercible ==
    Validated =>
        /\ \A i \in DOMAIN input_dict :
              ( /\ i <= RaisedAt
                /\ PassedThrough(KeyAt(i))
                /\ ~TypeListed(KeyAt(i), ValueAt(i)) )
              => /\ ~Coercible(KeyAt(i), ValueAt(i)) => (RaisedAt = i /\ TypeMismatch)
                 /\ Coercible(KeyAt(i), ValueAt(i)) => ~(RaisedAt = i /\ TypeMismatch)
                 /\ ( /\ Coercible(KeyAt(i), ValueAt(i))
                      /\ ~Restricted(KeyAt(i))
                      /\ Len(input_dict) = 1 ) => Accepted
        /\ input_dict = << <<"project_ra", PyStr(<<"2", "0">>)>> >> => Accepted
        /\ input_dict = << <<"project_ra", PyStr(<<"a", "b", "c">>)>> >> => TypeMismatch

C4_Witness ==
    /\ Validated
    /\ input_dict = << <<"project_ra", PyStr(<<"2", "0">>)>> >>
    /\ Coercible("project_ra", ValueAt(1))
    /\ Accepted

\* C5 as stated: when the call accepts a value by conversion, the dict it
\* returns holds under that key the result of the first allowed type, in
\* order, whose conversion works.
C5_ReturnsConvertedValue ==
    (Validated /\ Accepted) =>
        \A i \in DOMAIN input_dict :
            ~TypeListed(KeyAt(i), ValueAt(i)) =>
                ret_dict[i][2] = FirstConverted(KeyAt(i), ValueAt(i))

\* C5, amended: when the call accepts a value by conversion, the dict it
\* returns is the input dict unchanged: the key still holds the value as it
\* was given (the str "20" for a float option), not the converted value.
C5_ReturnsInputUnchanged ==
    (Validated /\ Accepted) =>
        /\ ret_dict = input_dict
        /\ \A i \in DOMAIN input_dict :
              ~TypeListed(KeyAt(i), ValueAt(i)) =>
                  /\ ret_dict[i][2] = ValueAt(i)
                  /\ ret_dict[i][2] # FirstConverted(KeyAt(i), ValueAt(i))

C5_Witness ==
    /\ Validated
    /\ Accepted
    /\ input_dict = << <<"project_ra", PyStr(<<"2", "0">>)>> >>
    /\ FirstConverted("project_ra", ValueAt(1)) = PyFloat(20, 0)
    /\ ret_dict[1][2] = PyStr(<<"2", "0">>)

\* C6 as stated: for a registered option with allowed values the call fails
\* with InvalidValue exactly when the value is not one of them, and for an
\* option without allowed values it never fails with InvalidValue.
\* (Stated for check_status true and a configuration of that one key, taken
\* among PlainKeys, which is enough to refute it.)
C6_InvalidValueIffNotMember ==
    (Validated /\ check_status /\ Len(input_dict) = 1 /\ PlainKeys /\ HasDescriptor(KeyAt(1))) =>
        IF Restricted(KeyAt(1))
        THEN InvalidValue <=> ~InAllowedValues(KeyAt(1), ValueAt(1))
        ELSE ~InvalidValue

\* C6, amended: for a key that gets to the allowed-values check (a registered
\* key of status 'allowed' whose value passed the type check, no earlier key
\* having raised) and whose option has a non-empty val, the call raises
\* InvalidValue at that key exactly when the value is not in val; no call
\* raises InvalidValue at a key whose option has no val or whose value is in
\* val.
C6_InvalidValueAtValueCheck ==
    Validated =>
        /\ InvalidValue =>
              /\ Restricted(raised.key)
              /\ ~InAllowedValues(raised.key, ValueAt(RaisedAt))
        /\ \A i \in DOMAIN input_dict :
              ( /\ i <= RaisedAt
                /\ PassedThrough(KeyAt(i))
                /\ TypeListed(KeyAt(i), ValueAt(i)) \/ Coercible(KeyAt(i), ValueAt(i))
                /\ Restricted(KeyAt(i))
                /\ ~InAllowedValues(KeyAt(i), ValueAt(i)) )
              => (RaisedAt = i /\ InvalidValue)

C6_Witness ==
    /\ Validated
    /\ input_dict = << <<"split_method", PyStr(<<"a", "b", "c">>)>> >>
    /\ InvalidValue
    /\ raised.key = "split_method"

-----------------------------------------------------------------------------
(* Claims about column_maps and read_corr2_output_file *)

Parsed == Done /\ fn = "read_corr2_output_file"
Kinds == {"n2", "ng", "g2", "nk", "k2", "kg", "m2", "nm", "norm"}
SchemaMismatch == raised.site = "schema_mismatch"

\* The number of columns of a file with rows
Width == Len(file_rows[1])

\* The column maps of a kind that have w names
Candidates(kind, w) == {i \in DOMAIN column_maps[kind] : Len(column_maps[kind][i]) = w}

\* C7: in column_maps no two lists of one kind have the same length, so that
\* the number of columns of a file selects at most one list of its kind.
C7_LengthSelectsOneColumnMap ==
    Parsed =>
        /\ \A kind \in DOMAIN column_maps :
              \A i, j \in DOMAIN column_maps[kind] :
                  i # j => Len(column_maps[kind][i]) # Len(column_maps[kind][j])
        /\ (file_type \in DOMAIN column_maps /\ file_rows # <<>>) =>
              Cardinality(Candidates(file_type, Width)) <= 1

C7_Witness ==
    /\ Parsed
    /\ file_type = "ng"
    /\ Len(column_maps["ng"]) = 4
    /\ file_rows # <<>>
    /\ Width = 15
    /\ Candidates("ng", Width) = {2}

\* C8: the kinds of column_maps are exactly n2, ng, g2, nk, k2, kg, m2, nm and
\* norm, and a call with any other file_type ends with the ValueError of
\* line 396 and returns nothing.
C8_UnknownKindValueError ==
    /\ DOMAIN column_maps = Kinds
    /\ (Parsed /\ file_type \notin Kinds) =>
          /\ raised.site = "unknown_file_type"
          /\ raised.exc = "ValueError"
          /\ ret_array = NoArray

\* C9: for a known kind and a file with rows, the call fails with the
\* RuntimeError of line 407 if and only if no column map of the kind is as
\* long as a row of the file, and then it returns nothing.  (Stated for the
\* files of more than one column, which is enough to refute it.)
C9_SchemaMismatchIffNoCandidate ==
    (Parsed /\ file_type \in DOMAIN column_maps /\ file_rows # <<>> /\ Width > 1) =>
        /\ SchemaMismatch <=> Candidates(file_type, Width) = {}
        /\ Candidates(file_type, Width) = {} => ret_array = NoArray

C11_ReturnsRowsUnderMatchedNames ==
    ( /\ Parsed
      /\ file_type \in DOMAIN column_maps
      /\ file_rows # <<>>
      /\ Candidates(file_type, Width) # {} )
    => /\ Accepted
       /\ ret_array.names = column_maps[file_type][First(Candidates(file_type, Width))]
       /\ ret_array.data = file_rows

-----------------------------------------------------------------------------
(* Reading a parameter file back: lines end with a newline, and a line is *)
(* split at its first ' = '                                               *)

Serialized == Done /\ fn = "write_corr2_param_file"

\* The lines of a text, without their newlines; what follows the last newline
\* is a line too when it is not empty
RECURSIVE SplitLines(_, _)
SplitLines(text, line) ==
    IF text = <<>> THEN (IF line = <<>> THEN <<>> ELSE <<line>>)
    ELSE IF Head(text) = "\n" THEN <<line>> \o SplitLines(Tail(text), <<>>)
    ELSE SplitLines(Tail(text), Append(line, Head(text)))

\* The positions of a line where ' = ' starts
Separators(line) == {i \in 1..(Len(line) - 2) : SubSeq(line, i, i + 2) = <<" ", "=", " ">>}

\* <<key, value>> of a line, <<line>> when the line has no ' = '
SplitAtEquals(line) ==
    IF Separators(line) = {} THEN <<line>>
    ELSE LET i == First(Separators(line))
         IN  <<SubSeq(line, 1, i - 1), SubSeq(line, i + 3, Len(line))>>

Reparsed(text) == {SplitAtEquals(SplitLines(text, <<>>)[n]) :
                      n \in 1..Len(SplitLines(text, <<>>))}

\* A configuration of registry keys with values of the five types, each of
\* a type its key lists
ValidConfiguration(items) ==
    \A i \in 1..Len(items) :
        /\ HasDescriptor(items[i][1])
        /\ items[i][2].t \in {"str", "int", "float", "bool", "list"}
        /\ TypeListed(items[i][1], items[i][2])

\* The pairs of a configuration, keys and string-formatted values as text
FormattedPairs(items) == {<<KeyText[items[i][1]], PyStrOf(items[i][2])>> : i \in 1..Len(items)}

\* C12: serializing a valid configuration writes one line 'key = value' and a
\* newline per entry, and splitting the written lines on ' = ' gives back the
\* pairs of the configuration, values string-formatted.  Stated for a file
\* object open for writing, which is enough to refute it.
C12_RoundTrip ==
    ( /\ Serialized
      /\ ValidConfiguration(kwargs)
      /\ ~param_file.name /\ param_file.mode = "w" )
    => /\ raised = NoException
       /\ Len(SplitLines(param_file.text, <<>>)) = Len(kwargs)
       /\ Reparsed(param_file.text) = FormattedPairs(kwargs)

-----------------------------------------------------------------------------
(* The calls of getCF *)

InGetCF == fn = "getCF"
Returned == InGetCF /\ Done /\ raised = NoException
Failed == InGetCF /\ Done /\ raised # NoException

\* The positions in calls of the calls of a function
Called(name) == {i \in 1..Len(calls) : calls[i][1] = name}

\* The dict under stile_args['corr2_kwargs'], empty when there is none
Harvested == IF HasKey(stile_args, "corr2_kwargs") THEN GetItem(stile_args, "corr2_kwargs").v
             ELSE <<>>

\* The keys the caller set, in stile_args or as keyword overrides
CallerKeys == KeysOf(Harvested) \cup KeysOf(kwargs)

\* C13: a call whose caller configuration sets a key that the caller may not
\* set (status disallowed_file or disallowed_computation) fails with
\* ForbiddenOption and corr2 is not run.  Stated for the run of corr2, which is
\* enough to refute it.
C13_ForbiddenKeyNeverReachesEngine ==
    (InGetCF /\ \E k \in CallerKeys : Forbidden(k)) => Called("check_call") = {}

\* The two raise ValueError of lines 120 and 123
IncompleteSpecification == raised.site \in {"no_file_kwarg", "no_file_2"}

Merged == InGetCF /\ Called("MakeCorr2FileKwargs") # {}

\* C15: a call whose merged configuration holds neither 'file_name' nor
\* 'file_list' fails with IncompleteSpecification (line 120), and no temporary
\* file is created and corr2 is never run in it.
C15_NoFileKwargRejectedBeforeEngine ==
    (Merged /\ ~HasKey(corr2_kwargs, "file_name") /\ ~HasKey(corr2_kwargs, "file_list"))
    => /\ temp_files = {}
       /\ Called("mkstemp") = {}
       /\ Called("check_call") = {}
       /\ pc # "check" => Failed /\ raised = Exc("ValueError", "no_file_kwarg", "")

\* A call that sets options but no file ended at line 120
C15_Witness ==
    /\ Failed
    /\ raised.site = "no_file_kwarg"
    /\ corr2_kwargs # <<>>
    /\ ~HasKey(corr2_kwargs, "file_name") /\ ~HasKey(corr2_kwargs, "file_list")
    /\ Called("check_call") = {}

\* C16: a call whose merged configuration holds 'rand_file_name2' or
\* 'rand_file_list2' and neither 'file_name2' nor 'file_list2' fails with
\* IncompleteSpecification and corr2 is never run.  Stated for a random file
\* the caller set and for the run of corr2, which is enough to refute it.
C16_RandomWithoutFile2NeverReachesEngine ==
    ( /\ Merged
      /\ \E k \in {"rand_file_name2", "rand_file_list2"} :
            k \in CallerKeys /\ HasKey(corr2_kwargs, k)
      /\ ~HasKey(corr2_kwargs, "file_name2") /\ ~HasKey(corr2_kwargs, "file_list2") )
    => Called("check_call") = {}

\* C17: when a call has ended, by a return or by an exception, the output
\* file it created has been removed, and so has the configuration file unless
\* save_config was set.  Stated for the calls that return, which is enough to
\* refute it.
C17_TempFilesRemovedAtReturn ==
    Returned => /\ output_file \notin temp_files
                /\ ~save_config => config_file \notin temp_files

\* C18: in one call corr2 is run at most once, with the path of the written
\* configuration file as its only argument; when it exits with a status other
\* than 0 the call fails with the error of check_call (CalledProcessError),
\* the parser is not called, nothing is returned and corr2 is not run again.
C18_EngineRunOnceAndFailureIsFatal ==
    InGetCF =>
       /\ Cardinality(Called("check_call")) <= 1
       /\ \A i \in Called("check_call") :
             /\ calls[i][2] = <<"corr2", config_file>>
             /\ \E j \in Called("WriteCorr2ConfigurationFile") :
                   j < i /\ calls[j][2][1] = config_file
       /\ returncode \notin {-1, 0} =>
             /\ Failed
             /\ raised = Exc("CalledProcessError", "check_call", "")
             /\ Called("ReadCorr2ResultsFile") = {}
             /\ return_value = None

\* corr2 was run once, exited with status 1, and the call ended there
C18_Witness ==
    /\ Failed
    /\ returncode = 1
    /\ Cardinality(Called("check_call")) = 1
    /\ Called("ReadCorr2ResultsFile") = {}

\* The keys set both in stile_args['corr2_kwargs'] and as keyword overrides
SetTwice == KeysOf(Harvested) \cap KeysOf(kwargs)

\* The keys a later step of the call has set: the collaborator's file options
\* (line 116) and the output file option (line 133)
SetLater ==
    (IF Called("MakeCorr2FileKwargs") # {} THEN KeysOf(MakeCorr2FileKwargs(data_sets)) ELSE {})
    \cup (IF Called("mkstemp") # {} THEN {OutputFileOption[correlation_function_type]} ELSE {})

\* C19: for every key set both in stile_args['corr2_kwargs'] and as a keyword
\* override, the merge (lines 103-104) gives the merged configuration the
\* override's value, and the value of stile_args never takes its place: the
\* key keeps the override's value unless a later step of the call sets it.
C19_OverridesSupersedeStileArgs ==
    (InGetCF /\ pc # "call" /\ HasKey(stile_args, "corr2_kwargs"))
    => \A k \in SetTwice :
          /\ HasKey(corr2_kwargs, k)
          /\ GetItem(corr2_kwargs, k) # GetItem(Harvested, k)
          /\ k \notin SetLater => GetItem(corr2_kwargs, k) = GetItem(kwargs, k)
          /\ pc = "files" => GetItem(corr2_kwargs, k) = GetItem(kwargs, k)

\* A call returned with a key of stile_args['corr2_kwargs'] overridden
C19_Witness ==
    /\ Returned
    /\ \E k \in SetTwice :
          /\ GetItem(Harvested, k) # GetItem(kwargs, k)
          /\ GetItem(corr2_kwargs, k) = GetItem(kwargs, k)

\* C20: a call goes through COLLECT, VALIDATE, SERIALIZE, INVOKE, PARSE,
\* RETURN in that order: when the configuration file is written, and when
\* corr2 is run, check_options has been called twice on the merged
\* configuration (with the ownership test, then for the types only).
C20_SerializedOnlyAfterTwoValidations ==
    InGetCF =>
       \A i \in Called("WriteCorr2ConfigurationFile") \cup Called("check_call") :
          Cardinality({j \in Called("check_options") : j < i}) = 2

-----------------------------------------------------------------------------
(* The registry as check_options reads it *)

\* C21: every entry of options is a descriptor with a non-empty tuple 'type',
\* a 'val' and a 'status' among 'captured', 'disallowed_computation',
\* 'disallowed_file' and 'allowed', so that check_options reads the entry of a
\* registered key (of 'project' too) without an error of its own.
C21_RegisteredKeysHaveDescriptors ==
    Validated =>
       /\ \A i \in DOMAIN input_dict :
             Registered(KeyAt(i)) =>
                /\ HasDescriptor(KeyAt(i))
                /\ Len(options[KeyAt(i)].type) > 0
                /\ StatusOf(KeyAt(i)) \in {"captured", "disallowed_computation",
                                           "disallowed_file", "allowed"}
       /\ raised.site # "status_lookup"

\* C22: for each of the nine kinds the registry holds '<kind>_file_name' as
\* an option of type str with no list of allowed values, so that the path of
\* a temporary file passes the type and value checks under it.  Stated for
\* the registry entry of the key check_options is given, which is enough to
\* refute it.
C22_OutputFileOptionsUnrestricted ==
    Validated =>
       \A i \in DOMAIN input_dict :
          KeyAt(i) \in Range(OutputFileOption) =>
             /\ HasDescriptor(KeyAt(i))
             /\ options[KeyAt(i)].type = <<"str">>
             /\ ~Restricted(KeyAt(i))

\* The value of item i satisfies the type and the allowed values of its key
ValueFits(i) ==
    /\ TypeListed(KeyAt(i), ValueAt(i)) \/ Coercible(KeyAt(i), ValueAt(i))
    /\ Restricted(KeyAt(i)) => InAllowedValues(KeyAt(i), ValueAt(i))

\* The items whose key has the status 'captured'
CapturedAt == {i \in DOMAIN input_dict :
                  HasDescriptor(KeyAt(i)) /\ StatusOf(KeyAt(i)) = "captured"}

C24_ValidateLeavesConfigurationAsGiven ==
    [][CheckOptions =>
          /\ input_dict' = input_dict
          /\ raised' = NoException =>
                /\ Len(ret_dict') = Len(input_dict)
                /\ \A i \in DOMAIN input_dict :
                      /\ ret_dict'[i][1] = KeyAt(i)
                      /\ TypeListed(KeyAt(i), ValueAt(i)) => ret_dict'[i][2] = ValueAt(i)
          /\ raised' # NoException => ret_dict' = <<>>]_vars

\* A dict of two keys, the first with a value of a listed type, that was
\* returned; its second value was accepted by conversion
C24_Witness ==
    /\ Validated
    /\ Accepted
    /\ Len(input_dict) = 2
    /\ TypeListed(KeyAt(1), ValueAt(1))
    /\ ~TypeListed(KeyAt(2), ValueAt(2))
    /\ ret_dict = input_dict

-----------------------------------------------------------------------------
(* The emptiness test of read_corr2_output_file *)

\* C25: for a known kind the call fails with EmptyOutput (line 400) exactly
\* when the file has no row, and a file with at least one row, whatever its
\* numbers, does not fail at the test of line 399.
C25_EmptyOutputIffNoRows ==
    (Parsed /\ file_type \in DOMAIN column_maps)
    => /\ raised.site = "empty_output" <=> file_rows = <<>>
       /\ file_rows # <<>> => raised.site # "truth_value"

-----------------------------------------------------------------------------
(* Nested dicts and destinations of write_corr2_param_file *)

\* The items of a dict with the items of each dict under a key that is not
\* in options put in the place of that key
RECURSIVE Flattened(_)
Flattened(items) ==
    IF items = <<>> THEN <<>>
    ELSE IF items[1][1] \notin DOMAIN options /\ items[1][2].t = "dict"
         THEN Flattened(items[1][2].v) \o Flattened(Tail(items))
         ELSE <<items[1]>> \o Flattened(Tail(items))

\* C26: for a key that is not in options and whose value is a dict, the call
\* writes to the same file the lines of that dict, writes no line for the key
\* itself, and goes on with the keys that follow.  Stated for a file object
\* open for writing and str values, which is enough to refute it.
C26_NestedDictFlattened ==
    ( /\ Serialized
      /\ ~param_file.name /\ param_file.mode = "w"
      /\ \E i \in 1..Len(kwargs) : kwargs[i][1] \notin DOMAIN options
      /\ \A i \in 1..Len(kwargs) :
            \/ HasDescriptor(kwargs[i][1]) /\ kwargs[i][2].t = "str"
            \/ /\ kwargs[i][1] \notin DOMAIN options
               /\ kwargs[i][2].t = "dict"
               /\ ValidConfiguration(kwargs[i][2].v) )
    => /\ raised = NoException
       /\ Len(SplitLines(param_file.text, <<>>)) = Len(Flattened(kwargs))
       /\ Reparsed(param_file.text) = FormattedPairs(Flattened(kwargs))

\* C27: given a file name the call opens that file for writing, creating it
\* if need be, writes every line and closes the file before it returns; given
\* a file object open for writing it writes the lines and leaves it open.
\* Stated for str values, which is enough to refute it.
C27_FileNameOrWritableObject ==
    ( /\ Serialized
      /\ kwargs # <<>>
      /\ ValidConfiguration(kwargs)
      /\ \A i \in 1..Len(kwargs) : kwargs[i][2].t = "str"
      /\ param_file.name \/ param_file.mode = "w" )
    => /\ raised = NoException
       /\ param_file.exists
       /\ param_file.mode = (IF param_file.name THEN "closed" ELSE "w")
       /\ Len(SplitLines(param_file.text, <<>>)) = Len(kwargs)
       /\ Reparsed(param_file.text) = FormattedPairs(kwargs)

-----------------------------------------------------------------------------
(* The parser call of getCF *)

\* C28: in every call that reaches the parser, the parser is given the path
\* of the temporary output file that was stored under '<kind>_file_name' in
\* the configuration written for corr2, and the kind getCF was called with.
C28_ParserGivenOutputFileAndKind ==
    InGetCF =>
       \A i \in Called("ReadCorr2ResultsFile") :
          /\ output_file \in temp_files
          /\ \E j \in Called("WriteCorr2ConfigurationFile") :
                /\ j < i
                /\ GetItem(calls[j][2][2], OutputFileOption[correlation_function_type])
                      = PyStr(output_file)
          /\ calls[i][2] = <<output_file, correlation_function_type>>

-----------------------------------------------------------------------------
(* Harvesting *)

HarvestReturned == Done /\ fn = "add_corr2_dict" /\ raised = NoException

\* The pairs of a dict
Pairs(d) == {d[i] : i \in 1..Len(d)}

\* C29: add_corr2_dict returns the dict with a sub-dict that holds every pair
\* of the input whose key is in options, and the pairs of a sub-dict that was
\* there unless the input sets their key; a second call changes nothing; and
\* the sub-dict is under the key getCF reads it from, 'corr2_kwargs'.
C29_HarvestUnderKeyCollectReads ==
    HarvestReturned =>
       /\ HasKey(ret_dict, "corr2_kwargs")
       /\ GetItem(ret_dict, "corr2_kwargs").t = "dict"
       /\ Pairs(corr2_dict(input_dict)) \subseteq Pairs(GetItem(ret_dict, "corr2_kwargs").v)
       /\ add_corr2_dict(ret_dict).dict = ret_dict

-----------------------------------------------------------------------------
(* Two calls of getCF at the same time *)

\* What the statements call c has run make of the arguments of call c alone
OwnMapping(c) ==
    LET harvested == GetItem(stile_args, "corr2_kwargs").v
        merged == Update(MergedKwargs(harvested, frames[c].kwargs),
                         MakeCorr2FileKwargs(data_sets))
    IN  IF frames[c].pc = "update" THEN harvested
        ELSE IF frames[c].output_file = <<>> THEN merged
        ELSE SetItem(merged, OutputFileOption[frames[c].correlation_function_type],
                     PyStr(frames[c].output_file))

\* C30: however the statements of two calls of getCF interleave, the calls
\* never have a config or output temporary file path in common; the merged
\* dict of each call is an object of its own, neither the other call's nor
\* stile_args['corr2_kwargs'], and holds what the call's own arguments make
\* of it; stile_args['corr2_kwargs'] stays as the caller gave it; options and
\* column_maps stay as the module defines them.
C30_ConcurrentCallsKeepApart ==
    pc = "threads" =>
       /\ \A c, d \in Threads : c # d =>
             /\ {frames[c].config_file, frames[c].output_file}
                   \cap {frames[d].config_file, frames[d].output_file} \subseteq {<<>>}
             /\ frames[c].corr2_kwargs # 0 => frames[c].corr2_kwargs # frames[d].corr2_kwargs
       /\ \A c \in Threads : frames[c].corr2_kwargs # 0 =>
             /\ frames[c].corr2_kwargs # CallerObject
             /\ heap.objects[frames[c].corr2_kwargs] = OwnMapping(c)
       /\ HasKey(stile_args, "corr2_kwargs") =>
             heap.objects[CallerObject] = GetItem(stile_args, "corr2_kwargs").v
       /\ heap.options = options
       /\ heap.column_maps = column_maps

\* Both calls have their two temporary files and their merged dicts, from
\* different **kwargs, the second call having made its config file between
\* the two mkstemp calls of the first
C30_Witness ==
    /\ pc = "threads"
    /\ \A c \in Threads : frames[c].pc = "write"
    /\ frames[1].kwargs # frames[2].kwargs
    /\ frames[1].output_file =
          MkstempPath(TempDir(FALSE), {frames[1].config_file, frames[2].config_file})

====
